---------------------------- MODULE Spec2Model ----------------------------
(***************************************************************************)
(* A model of the plotting and tabulating scripts of the repository:       *)
(*   Lab5 .../src/plot_heatmaps.py   (polynomial approximation errors)     *)
(*   Lab6 .../src/plot_heatmaps.py   (trigonometric approximation errors)  *)
(*   Lab7 .../src/plot_results.py    (root finding results)                *)
(*                                                                         *)
(* Numbers.  A float is modelled by an integer count of a fixed quantum:   *)
(*   metric values (Root, RootError, grid cells)    in units of 1e-7,      *)
(*   coordinates (x0, x1)                           in units of 1e-2,      *)
(*   precisions (PrecisionRho)                      in units of 1e-9.      *)
(* NaN (a missing value) and PosInf (a float infinity) are two integers    *)
(* outside every finite domain used; every operator that reads a float     *)
(* tests for them first, as the pandas/numpy call it models does.          *)
(***************************************************************************)
EXTENDS Integers, Sequences, FiniteSets, TLC

VARIABLES
    script,      \* which script runs: "Lab5", "Lab6" or "Lab7"
    pc,          \* position of the run
    data,        \* create_heatmap: the unstacked cells of the grid to draw
    log_norm,    \* create_heatmap (Lab7): the log_norm argument
    norm,        \* create_heatmap: the selected norm, NoNorm before selection
    root_value,  \* format_root_error_pl: argument root_value
    status,      \* format_root_error_pl: argument status
    cell,        \* format_root_error_pl: the returned text
    src,         \* main: the CSV source as found on disk
    df,          \* main: the ingested frame, a sequence of rows
    jobs,        \* main: the facets still to process, in the order of the loops
    results,     \* main: what each processed facet produced, in order
    fault,       \* the environment: where a library call fails in this run
    exit_code    \* the exit code of the process, NoExit while it runs

vars == <<script, pc, data, log_norm, norm, root_value, status, cell,
          src, df, jobs, results, fault, exit_code>>

scaleVars == <<data, log_norm, norm>>

fmtVars == <<root_value, status, cell>>

runVars == <<src, df, jobs, results, fault, exit_code>>

(***************************************************************************)
(* Floats                                                                  *)
(***************************************************************************)
NaN == -999999999

PosInf == 999999999

IsNaN(v) == v = NaN

IsFinite(v) == v # NaN /\ v # PosInf

SetMin(S) == CHOOSE m \in S : \A v \in S : m <= v

SetMax(S) == CHOOSE m \in S : \A v \in S : m >= v

\* f(x) rounded to a multiple of q, a tie going to the even multiple
\* (numpy.round and the float formatting of Python both round half to even)
RoundTo(v, q) ==
    LET lo == (v \div q) * q
        r  == v - lo
    IN  IF 2 * r < q THEN lo
        ELSE IF 2 * r > q THEN lo + q
        ELSE IF (lo \div q) % 2 = 0 THEN lo ELSE lo + q

Abs(v) == IF v < 0 THEN -v ELSE v

NoExit == -1

\* the values of the variables a specification does not use
ScaleIdle == data = <<>> /\ log_norm = FALSE /\ norm = "-"

FmtIdle == root_value = 0 /\ status = 0 /\ cell = "-"

RunIdle ==
    /\ src = "-" /\ df = <<>> /\ jobs = <<>> /\ results = <<>>
    /\ fault = "-" /\ exit_code = NoExit

(***************************************************************************)
(* Scale selection of create_heatmap                                       *)
(***************************************************************************)
Scripts == {"Lab5", "Lab6", "Lab7"}

LinearNorm == [scale |-> "linear", vmin |-> NaN, vmax |-> NaN]

LogNorm(lo, hi) == [scale |-> "log", vmin |-> lo, vmax |-> hi]

NoNorm == [scale |-> "none", vmin |-> NaN, vmax |-> NaN]

\* data.unstack().dropna(): the cells that are not missing (an infinity stays)
valid_data(d) == {d[i] : i \in DOMAIN d} \ {NaN}

\* valid_data[valid_data > 0]
positive_data(d) == {v \in valid_data(d) : v > 0}

\* Lab5: min_val None when there is no positive cell; norm is LogNorm
\* whenever min_val is a number, also when max_val = min_val.
Lab5Norm(d) ==
    LET min_val == IF positive_data(d) # {} THEN SetMin(positive_data(d)) ELSE NaN
        max_val == IF valid_data(d) # {} THEN SetMax(valid_data(d)) ELSE NaN
    IN  IF IsNaN(min_val) THEN LinearNorm ELSE LogNorm(min_val, max_val)

\* Lab6: the same selection with the added test min_val <= 0
Lab6Norm(d) ==
    LET min_val == IF positive_data(d) # {} THEN SetMin(positive_data(d)) ELSE NaN
        max_val == IF valid_data(d) # {} THEN SetMax(valid_data(d)) ELSE NaN
    IN  IF IsNaN(min_val) \/ min_val <= 0 THEN LinearNorm ELSE LogNorm(min_val, max_val)

\* Lab7: the fallback bounds used when the grid has no positive cell are
\* 1e-16 and 1.0; 1e-16 is below the quantum and is modelled by the smallest
\* positive number, only 0 < EMPTY_MIN_VAL < EMPTY_MAX_VAL being read.
EMPTY_MIN_VAL == 1

EMPTY_MAX_VAL == 10000000

Lab7Norm(d, log) ==
    IF ~log THEN LinearNorm
    ELSE LET min_val == IF positive_data(d) # {} THEN SetMin(positive_data(d))
                        ELSE EMPTY_MIN_VAL
             max_val == IF positive_data(d) # {} THEN SetMax(positive_data(d))
                        ELSE EMPTY_MAX_VAL
         IN  IF min_val > 0 /\ max_val > min_val
             THEN LogNorm(min_val, max_val) ELSE LinearNorm

SelectNorm(s, d, log) ==
    CASE s = "Lab5" -> Lab5Norm(d)
      [] s = "Lab6" -> Lab6Norm(d)
      [] s = "Lab7" -> Lab7Norm(d, log)

(***************************************************************************)
(* Specification SpecScale: create_heatmap's scale selection applied to    *)
(* every grid of NCells cells.  Lab5 and Lab6 draw the grid from a frame   *)
(* whose infinities were replaced by NaN (plot_df.replace), so their cells *)
(* are finite or missing; Lab7 draws what create_pivot_table returns: a    *)
(* root error is >= 0, and is infinite for a Root that overflowed to inf.  *)
(***************************************************************************)
NCells == 3

CellValues(s) ==
    IF s = "Lab7" THEN {NaN, 0, 1, 2, 5, PosInf} ELSE {NaN, -1, 0, 1, 2, 5}

InitScale ==
    /\ script \in Scripts
    /\ log_norm \in (IF script = "Lab7" THEN BOOLEAN ELSE {TRUE})
    /\ data \in [1..NCells -> CellValues(script)]
    \* pivot_table drops the rows and columns that are all NaN, and an empty
    \* grid is skipped before the scale is selected (Lab7 line 111)
    /\ (script = "Lab7" => valid_data(data) # {})
    /\ norm = NoNorm
    /\ pc = "scale"
    /\ FmtIdle
    /\ RunIdle

SelectScale ==
    /\ pc = "scale"
    /\ norm' = SelectNorm(script, data, log_norm)
    /\ pc' = "scaled"
    /\ UNCHANGED <<script, data, log_norm, fmtVars, runVars>>

NextScale == SelectScale

SpecScale == InitScale /\ [][NextScale]_vars

\* What the claims call min and max of a grid: the smallest strictly
\* positive finite cell and the largest finite cell.
FiniteCells(d) == {v \in valid_data(d) : IsFinite(v)}

PositiveFiniteCells(d) == {v \in FiniteCells(d) : v > 0}

\* C1: the log scale is selected only if the grid has a smallest strictly
\* positive finite value min and its largest finite value max is > min;
\* a grid whose positive values are all equal gets the linear scale.
C1_LogOnlyIfMinBelowMax ==
    (pc = "scaled" /\ norm.scale = "log") =>
        /\ PositiveFiniteCells(data) # {}
        /\ SetMax(FiniteCells(data)) > SetMin(PositiveFiniteCells(data))

\* C2: a grid with no strictly positive finite value always gets the linear
\* scale, also when log_norm = TRUE was asked for.
C2_NoPositiveIsLinear ==
    (pc = "scaled" /\ PositiveFiniteCells(data) = {}) => norm.scale = "linear"

\* C3: a grid with two distinct strictly positive finite values (log_norm
\* asked for in Lab7) gets the log scale with bounds exactly
\* [smallest strictly positive cell, largest finite cell].
C3_LogExactBounds ==
    (/\ pc = "scaled"
     /\ Cardinality(PositiveFiniteCells(data)) >= 2
     /\ (script = "Lab7" => log_norm)) =>
        norm = LogNorm(SetMin(PositiveFiniteCells(data)), SetMax(FiniteCells(data)))

(***************************************************************************)
(* Cell formatting of the plain table (Lab7)                               *)
(***************************************************************************)
REFERENCE_ROOT_1 == 0

REFERENCE_ROOT_2 == -10000000

\* the absolute error of a root to the nearest reference root (0.0 or -1.0)
NearestReferenceError(r) ==
    IF r = PosInf THEN PosInf
    ELSE SetMin({Abs(r - ref) : ref \in {REFERENCE_ROOT_1, REFERENCE_ROOT_2}})

\* abs(a - b) of floats: an infinite a gives inf
AbsDiff(a, b) == IF a = PosInf THEN PosInf ELSE Abs(a - b)

FloatMin(a, b) == IF a <= b THEN a ELSE b

\* f"{v:.5f}": v to 5 decimals, i.e. to a multiple of 100 quanta
Fmt5(v) == IF v = PosInf THEN PosInf ELSE RoundTo(v, 100)

\* the power of ten p with p <= v < 10 p  (v >= 1)
RECURSIVE Pow10Below(_)
Pow10Below(v) == IF v < 10 THEN 1 ELSE 10 * Pow10Below(v \div 10)

\* f"{v:.1e}": v >= 0 to two significant digits
FmtSci1(v) ==
    IF v = PosInf THEN PosInf
    ELSE IF v < 100 THEN v
    ELSE RoundTo(v, Pow10Below(v) \div 10)

\* The texts a cell can hold.  text is the fixed part, value and err are the
\* numbers printed in it (NaN where the text prints none).
ValueCell(v, e) == [text |-> "value (Blad: err)", value |-> v, err |-> e]

ErrorCell(tag, code) == [text |-> tag, value |-> code, err |-> NaN]

NaNCell == [text |-> "NaN", value |-> NaN, err |-> NaN]

NoCell == [text |-> "-", value |-> NaN, err |-> NaN]

\* a mutation of format_root_error_pl: the missing value is tested first
format_root_error_pl_nan_first(r, s) ==
    IF IsNaN(r) THEN NaNCell
    ELSE IF s = 1 THEN ErrorCell("BLAD (MaxIter)", NaN)
    ELSE IF s = 2 THEN ErrorCell("BLAD (Stagnacja)", NaN)
    ELSE IF s # 0 THEN ErrorCell("BLAD (status)", s)
    ELSE ValueCell(Fmt5(r), FmtSci1(FloatMin(AbsDiff(r, REFERENCE_ROOT_1),
                                             AbsDiff(r, REFERENCE_ROOT_2))))

\* format_root_error_pl(root_value, status); a NaN status (a table cell no
\* row fills) compares unequal to 0 and prints as "BLAD (nan)"
format_root_error_pl(r, s) ==
    IF s = 1 THEN ErrorCell("BLAD (MaxIter)", NaN)
    ELSE IF s = 2 THEN ErrorCell("BLAD (Stagnacja)", NaN)
    ELSE IF s # 0 THEN ErrorCell("BLAD (status)", s)
    ELSE IF IsNaN(r) THEN NaNCell
    ELSE LET err1 == AbsDiff(r, REFERENCE_ROOT_1)
             err2 == AbsDiff(r, REFERENCE_ROOT_2)
             min_err == FloatMin(err1, err2)
         IN  ValueCell(Fmt5(r), FmtSci1(min_err))

(***************************************************************************)
(* The frame of Lab7 and its pandas operations                             *)
(*                                                                         *)
(* A row is a record Method, StopCriterion, x0, x1, PrecisionRho, Root,    *)
(* Iterations, Status, RootError, RootError_Plot; a missing text is        *)
(* MissingText and a missing number NaN.  The frame is the sequence of its *)
(* rows in file order; a selection of the frame is a set of row numbers.   *)
(***************************************************************************)
MissingText == "nan"

\* Series == value: a missing text equals nothing
TextEq(a, b) == a # MissingText /\ b # MissingText /\ a = b

\* np.isclose(a, b), rtol = 1e-05, atol = 1e-08, on coordinates in units of
\* 1e-2:  |a - b| <= atol + rtol * |b|  <=>  |a - b| * 10^5 <= |b| + 0.1
IsClose(a, b) ==
    /\ ~IsNaN(a) /\ ~IsNaN(b)
    /\ Abs(a - b) * 100000 <= Abs(b)

\* a variant of Round1: always the next tick above
Round1_up(v) == IF IsNaN(v) THEN NaN ELSE ((v \div 10) + 1) * 10

\* a variant of Round1: the digits after the first decimal are cut off
Round1_truncate(v) == IF IsNaN(v) THEN NaN ELSE (v \div 10) * 10

\* Series.round(1) on coordinates in units of 1e-2
Round1(v) == IF IsNaN(v) THEN NaN ELSE RoundTo(v, 10)

RECURSIVE SortAsc(_)
SortAsc(S) ==
    IF S = {} THEN <<>> ELSE <<SetMin(S)>> \o SortAsc(S \ {SetMin(S)})

RECURSIVE SortDesc(_)
SortDesc(S) ==
    IF S = {} THEN <<>> ELSE <<SetMax(S)>> \o SortDesc(S \ {SetMax(S)})

Range(q) == {q[i] : i \in DOMAIN q}

\* Series.unique(): the distinct values in order of first appearance
\* (a missing value is one of them)
RECURSIVE Unique(_)
Unique(q) ==
    IF q = <<>> THEN <<>>
    ELSE LET front == Unique(SubSeq(q, 1, Len(q) - 1))
             last  == q[Len(q)]
         IN  IF last \in Range(front) THEN front ELSE Append(front, last)

Column(d, col) == [i \in DOMAIN d |-> d[i][col]]

\* GroupBy.first / GroupBy.min over the rows I of one group: the first
\* non-missing value in file order, the smallest non-missing value; NaN when
\* the group holds no value
Agg(aggfunc, d, I, col) ==
    LET present == {i \in I : ~IsNaN(d[i][col])}
    IN  IF present = {} THEN NaN
        ELSE IF aggfunc = "min" THEN SetMin({d[i][col] : i \in present})
        ELSE d[SetMin(present)][col]

NoGrid == [index |-> <<>>, columns |-> <<>>, cells |-> <<>>]

\* the rows create_pivot_table keeps for (method, stop criterion, fixed x0)
PivotRows(d, method_name, stop_criterion_name, fixed_x0_val_filter) ==
    LET df_filtered == {i \in DOMAIN d :
                          /\ d[i].Method = method_name
                          /\ TextEq(d[i].StopCriterion, stop_criterion_name)}
    IN  IF method_name = "Secant"
        THEN {i \in df_filtered : IsClose(d[i].x0, fixed_x0_val_filter)}
        ELSE df_filtered

\* a variant of PivotGrid: the precisions in ascending order
PivotGrid_ascending(d, I, x_col, val_col, aggfunc) ==
    LET key(i) == <<d[i].PrecisionRho, Round1(d[i][x_col])>>
        keyed  == {i \in I : ~IsNaN(key(i)[1]) /\ ~IsNaN(key(i)[2])}
        agg(k) == Agg(aggfunc, d, {i \in keyed : key(i) = k}, val_col)
        kept   == {k \in {key(i) : i \in keyed} : ~IsNaN(agg(k))}
        rows   == {k[1] : k \in kept}
        cols   == {k[2] : k \in kept}
    IN  IF kept = {} THEN NoGrid
        ELSE [index   |-> SortAsc(rows),
              columns |-> SortAsc(cols),
              cells   |-> [k \in rows \X cols |-> IF k \in kept THEN agg(k) ELSE NaN]]

\* pd.pivot_table(df_filtered, index='PrecisionRho', columns=<iterated column
\* rounded to one decimal>, values=val_col, aggfunc=aggfunc), then sorted:
\* rows with a missing key are left out, a key whose values are all missing
\* gives no cell, and a key no row has is a NaN cell of the rectangle
PivotGrid(d, I, x_col, val_col, aggfunc) ==
    LET key(i) == <<d[i].PrecisionRho, Round1(d[i][x_col])>>
        keyed  == {i \in I : ~IsNaN(key(i)[1]) /\ ~IsNaN(key(i)[2])}
        agg(k) == Agg(aggfunc, d, {i \in keyed : key(i) = k}, val_col)
        kept   == {k \in {key(i) : i \in keyed} : ~IsNaN(agg(k))}
        rows   == {k[1] : k \in kept}
        cols   == {k[2] : k \in kept}
    IN  IF kept = {} THEN NoGrid
        ELSE [index   |-> SortDesc(rows),
              columns |-> SortAsc(cols),
              cells   |-> [k \in rows \X cols |-> IF k \in kept THEN agg(k) ELSE NaN]]

\* create_pivot_table(df, method, stop criterion, fixed x0, val_col, aggfunc)
create_pivot_table(d, method_name, stop_criterion_name, fixed_x0_val_filter, val_col, aggfunc) ==
    LET I == PivotRows(d, method_name, stop_criterion_name, fixed_x0_val_filter)
        iterated_col_for_pivot == IF method_name = "Secant" THEN "x1" ELSE "x0"
    IN  IF I = {} THEN NoGrid
        ELSE PivotGrid(d, I, iterated_col_for_pivot, val_col, aggfunc)

\* the sentinel written where a root error is undefined (10.0)
max_possible_error_proxy == 100000000

\* the lambda of line 422: the error of a Success row with a root to the
\* nearest reference root, NaN for every other row
RootErrorOf(row) ==
    IF row.Status = 0 /\ ~IsNaN(row.Root)
    THEN FloatMin(AbsDiff(row.Root, REFERENCE_ROOT_1),
                  AbsDiff(row.Root, REFERENCE_ROOT_2))
    ELSE NaN

\* a variant of FillNa: the sentinel also replaces what lies above it
FillNa_clip(v, fill) == IF IsNaN(v) \/ v > fill THEN fill ELSE v

\* Series.fillna(fill)
FillNa(v, fill) == IF IsNaN(v) THEN fill ELSE v

\* lines 422-424: the columns RootError and RootError_Plot are (re)written
WithRootError(d) ==
    [i \in DOMAIN d |->
        [d[i] EXCEPT !.RootError = RootErrorOf(d[i]),
                     !.RootError_Plot = FillNa(RootErrorOf(d[i]),
                                               max_possible_error_proxy)]]

\* the fallback interval of infer_bounds (-1.4, 0.6)
DEFAULT_A_BOUND == -140

DEFAULT_B_BOUND == 60

\* a variant of infer_bounds: the bounds of the column x0 alone
infer_bounds_x0_only(d) ==
    LET x0s == Range(Column(d, "x0")) \ {NaN}
    IN  IF x0s = {} THEN <<DEFAULT_A_BOUND, DEFAULT_B_BOUND>>
        ELSE <<SetMin(x0s), SetMax(x0s)>>

\* infer_bounds(df): Series.min/max skip missing values, np.nanmin/nanmax
\* take the smaller/larger of the x0 and x1 extremes that exist
infer_bounds(d) ==
    LET x0s == Range(Column(d, "x0")) \ {NaN}
        x1s == Range(Column(d, "x1")) \ {NaN}
        all == x0s \cup x1s
    IN  IF all = {} THEN <<DEFAULT_A_BOUND, DEFAULT_B_BOUND>>
        ELSE <<SetMin(all), SetMax(all)>>

(***************************************************************************)
(* The tables of Lab7                                                      *)
(***************************************************************************)
NoTable == [index |-> <<>>, precisions |-> <<>>, cells |-> <<>>, iters |-> <<>>]

\* the iteration cell of line 249; int(i) of an infinite i raises
IterationCell(i, s) ==
    IF s = 0 /\ ~IsNaN(i) THEN [text |-> "int", value |-> i, err |-> NaN]
    ELSE ErrorCell("BLAD (status)", s)

IterationCellRaises(i, s) == s = 0 /\ i = PosInf

\* df_table.pivot_table(index=x_col rounded, columns='PrecisionRho',
\* values=['Root','Iterations','Status'], aggfunc='first') read through
\* lines 217-232: rows with a missing key are left out; pivot_table drops a
\* column (value, precision) whose entries are all missing, so a precision
\* none of whose keys has a Root is not among actual_precisions_in_pivot.
TablePivot(d, I, x_col, rounds) ==
    LET x(i)   == IF rounds = 2 THEN Round1(Round1(d[i][x_col])) ELSE Round1(d[i][x_col])
        key(i) == <<x(i), d[i].PrecisionRho>>
        keyed  == {i \in I : ~IsNaN(key(i)[1]) /\ ~IsNaN(key(i)[2])}
        keys   == {key(i) : i \in keyed}
        first(k, col) == Agg("first", d, {i \in keyed : key(i) = k}, col)
        actual_precisions_in_pivot ==
            {p \in {k[2] : k \in keys} :
                \E k \in keys : k[2] = p /\ ~IsNaN(first(k, "Root"))}
        precision_subset == Unique(Column(d, "PrecisionRho"))
        valid_precisions ==
            SelectSeq(precision_subset, LAMBDA p : p \in actual_precisions_in_pivot)
        value(k, col) == IF k \in keys THEN first(k, col) ELSE NaN
    IN  [index |-> SortAsc({k[1] : k \in keys}),
         precisions |-> valid_precisions,
         Root |-> [k \in {k[1] : k \in keys} \X Range(valid_precisions) |->
                       value(k, "Root")],
         Iterations |-> [k \in {k[1] : k \in keys} \X Range(valid_precisions) |->
                       value(k, "Iterations")],
         Status |-> [k \in {k[1] : k \in keys} \X Range(valid_precisions) |->
                       value(k, "Status")]]

\* generate_single_table_full_txt: the cells of the plain table, NoTable when
\* the facet has no row or no precision column is left
FullTable(d, I, x_col) ==
    LET pv == TablePivot(d, I, x_col, 1)
    IN  IF I = {} \/ pv.precisions = <<>> THEN NoTable
        ELSE [index |-> pv.index,
              precisions |-> pv.precisions,
              cells |-> [k \in DOMAIN pv.Root |->
                            format_root_error_pl(pv.Root[k], pv.Status[k])],
              iters |-> [k \in DOMAIN pv.Root |->
                            IterationCell(pv.Iterations[k], pv.Status[k])]]

\* the list comprehension of line 249 raises OverflowError, outside any try
FullTableRaises(d, I, x_col) ==
    LET pv == TablePivot(d, I, x_col, 1)
    IN  /\ I # {}
        /\ \E k \in DOMAIN pv.Root : IterationCellRaises(pv.Iterations[k], pv.Status[k])

\* format_root_for_latex(root_value, status); f"{v:.6f}" is v to a multiple
\* of 10 quanta
format_root_for_latex(r, s) ==
    IF s = 1 THEN ErrorCell("MaxIter", NaN)
    ELSE IF s = 2 THEN ErrorCell("Stagnacja", NaN)
    ELSE IF s # 0 THEN ErrorCell("Blad (status)", s)
    ELSE IF IsNaN(r) THEN NaNCell
    ELSE [text |-> "value", value |-> IF r = PosInf THEN PosInf ELSE RoundTo(r, 10),
          err |-> NaN]

\* generate_single_table_roots_latex_to_txt: it rounds the swept column of
\* the facet copy that generate_single_table_full_txt has rounded already
LatexTable(d, I, x_col) ==
    LET pv == TablePivot(d, I, x_col, 2)
    IN  IF I = {} \/ pv.precisions = <<>> THEN NoTable
        ELSE [index |-> pv.index,
              precisions |-> pv.precisions,
              cells |-> [k \in DOMAIN pv.Root |->
                            format_root_for_latex(pv.Root[k], pv.Status[k])],
              iters |-> <<>>]

(***************************************************************************)
(* The facets of Lab7, in the order main reaches them                      *)
(***************************************************************************)
Job(kind, sc, method, case, fixed, val_col, aggfunc, log) ==
    [kind |-> kind, sc |-> sc, method |-> method, case |-> case, fixed |-> fixed,
     val_col |-> val_col, aggfunc |-> aggfunc, log_norm |-> log]

RECURSIVE Flatten(_)
Flatten(qq) == IF qq = <<>> THEN <<>> ELSE Head(qq) \o Flatten(Tail(qq))

\* df_method_current of generate_tables
MethodRows(d, sc, method) ==
    {i \in DOMAIN d : TextEq(d[i].StopCriterion, sc) /\ d[i].Method = method}

\* the x0 values generate_tables makes Secant facets of: the distinct
\* non-missing x0, none at all when ndarray.any() is false (no value, or
\* no value but 0.0)
SecantFixedValues(d, sc) ==
    LET fixed_x0_values_for_secant ==
            {d[i].x0 : i \in MethodRows(d, sc, "Secant")} \ {NaN}
    IN  IF \E v \in fixed_x0_values_for_secant : v # 0
        THEN SortAsc(fixed_x0_values_for_secant) ELSE <<>>

TableJobsOf(d, sc, method) ==
    IF method = "Secant"
    THEN [n \in DOMAIN SecantFixedValues(d, sc) |->
            Job("table", sc, method, "x0=", SecantFixedValues(d, sc)[n], "", "first", FALSE)]
    ELSE <<Job("table", sc, method, "", NaN, "", "first", FALSE)>>

\* generate_tables(df): stop criteria outside, methods inside
TableJobs(d) ==
    LET stop_criteria == Unique(Column(d, "StopCriterion"))
        methods == Unique(Column(d, "Method"))
    IN  Flatten([c \in DOMAIN stop_criteria |->
            Flatten([m \in DOMAIN methods |->
                TableJobsOf(d, stop_criteria[c], methods[m])])])

\* the rows of a table facet
TableRows(d, job) ==
    IF job.method = "Secant"
    THEN {i \in MethodRows(d, job.sc, job.method) : IsClose(d[i].x0, job.fixed)}
    ELSE MethodRows(d, job.sc, job.method)

\* the body of the loop of main over the stop criteria (lines 398-439)
HeatmapJobsOf(d, sc) ==
    LET a_bound == infer_bounds(d)[1]
        b_bound == infer_bounds(d)[2]
    IN  << Job("heatmap", sc, "Newton", "x0iter", NaN, "Iterations", "first", FALSE),
           Job("heatmap", sc, "Secant", "x0staleA", a_bound, "Iterations", "first", FALSE),
           Job("heatmap", sc, "Secant", "x1staleB", b_bound, "Iterations", "first", FALSE),
           Job("rooterror", sc, "", "", NaN, "", "", FALSE),
           Job("heatmap", sc, "Newton", "x0iter", NaN, "RootError_Plot", "min", TRUE),
           Job("heatmap", sc, "Secant", "x0staleA", a_bound, "RootError_Plot", "min", TRUE),
           Job("heatmap", sc, "Secant", "x1staleB", b_bound, "RootError_Plot", "min", TRUE) >>

HeatmapJobs(d) ==
    LET stop_criteria_to_plot == Unique(Column(d, "StopCriterion"))
    IN  Flatten([c \in DOMAIN stop_criteria_to_plot |->
                    HeatmapJobsOf(d, stop_criteria_to_plot[c])])

(***************************************************************************)
(* The run of Lab7: main()                                                 *)
(*                                                                         *)
(* src is the CSV file: whether it exists, whether read_csv parses it (a   *)
(* file of zero bytes raises EmptyDataError), its header and its rows as   *)
(* read_csv types them.  fault = <<n, stage>> makes the library call of    *)
(* that stage fail in the n-th facet processed; <<0, "none">> is a run in  *)
(* which no library call fails.                                            *)
(***************************************************************************)
required_cols == {"Method", "StopCriterion", "x0", "x1", "PrecisionRho", "Root",
                  "Iterations", "FinalError", "Status"}

\* Lab5 and Lab6, lines 161 and 142 (Lab6 names the second column m)
heatmap_required_cols == {"N", "M", "MaxAbsoluteError", "MeanSquaredError"}

RequiredCols(s) == IF s = "Lab7" THEN required_cols ELSE heatmap_required_cols

Row(method, sc, x0, x1, rho, root, iterations, st) ==
    [Method |-> method, StopCriterion |-> sc, x0 |-> x0, x1 |-> x1,
     PrecisionRho |-> rho, Root |-> root, Iterations |-> iterations, Status |-> st,
     RootError |-> NaN, RootError_Plot |-> NaN]

Source(exists, readable, columns, rows) ==
    [exists |-> exists, readable |-> readable, columns |-> columns, rows |-> rows]

\* lines 385-388: numeric columns are coerced (a text that is no number is
\* read as NaN already), a Status that is no number becomes -1
Ingest(rows) ==
    [i \in DOMAIN rows |->
        [rows[i] EXCEPT !.Status = IF IsNaN(rows[i].Status) THEN -1 ELSE rows[i].Status]]

NoFault == <<0, "none">>

FaultHits(stage) == fault = <<Len(results) + 1, stage>>

Result(job, rows, grid, nrm, table, latex, outcome) ==
    [job |-> job, rows |-> rows, grid |-> grid, norm |-> nrm,
     table |-> table, latex |-> latex, outcome |-> outcome]

\* Lab7 line 372, Lab5 line 146, Lab6 line 126: the file does not exist
FileMissing ==
    /\ script \in Scripts /\ pc = "start"
    /\ ~src.exists
    /\ pc' = "exit" /\ exit_code' = 1
    /\ UNCHANGED <<script, src, df, jobs, results, fault, scaleVars, fmtVars>>

\* Lab7 lines 375-379, Lab5 lines 151-158, Lab6 lines 131-138: read_csv raises
ReadFails ==
    /\ script \in Scripts /\ pc = "start"
    /\ src.exists /\ ~src.readable
    /\ pc' = "exit" /\ exit_code' = 1
    /\ UNCHANGED <<script, src, df, jobs, results, fault, scaleVars, fmtVars>>

\* Lab7 lines 380-383, Lab5 lines 161-166, Lab6 lines 142-147: a required
\* column is not in the header
SchemaFails ==
    /\ script \in Scripts /\ pc = "start"
    /\ src.exists /\ src.readable
    /\ ~(RequiredCols(script) \subseteq src.columns)
    /\ pc' = "exit" /\ exit_code' = 1
    /\ UNCHANGED <<script, src, df, jobs, results, fault, scaleVars, fmtVars>>

\* lines 376-390: the frame is read and coerced, generate_tables starts
Load ==
    /\ script = "Lab7" /\ pc = "start"
    /\ src.exists /\ src.readable
    /\ required_cols \subseteq src.columns
    /\ df' = Ingest(src.rows)
    /\ jobs' = TableJobs(df')
    /\ pc' = "tables"
    /\ UNCHANGED <<script, src, results, fault, exit_code, scaleVars, fmtVars>>

\* one facet of generate_tables: both tables of the facet.  The pivot of the
\* plain table and the writing of its file are inside a try; the formatting
\* of its cells is not, and an exception there ends the process.
TableStep ==
    /\ script = "Lab7" /\ pc = "tables" /\ jobs # <<>>
    /\ LET job   == Head(jobs)
           x_col == IF job.method = "Secant" THEN "x1" ELSE "x0"
           I     == TableRows(df, job)
           table == IF FaultHits("pivot") THEN NoTable ELSE FullTable(df, I, x_col)
           latex == IF FaultHits("render") THEN NoTable ELSE LatexTable(df, I, x_col)
       IN  IF ~FaultHits("pivot") /\ FullTableRaises(df, I, x_col)
           THEN /\ results' = Append(results,
                        Result(job, I, NoGrid, NoNorm, NoTable, NoTable, "raised"))
                /\ pc' = "exit" /\ exit_code' = 1
                /\ UNCHANGED jobs
           ELSE /\ results' = Append(results,
                        Result(job, I, NoGrid, NoNorm, table, latex,
                               IF I = {} THEN "no data"
                               ELSE IF FaultHits("pivot") THEN "pivot failed"
                               ELSE IF table = NoTable THEN "no data"
                               ELSE IF FaultHits("save") THEN "write failed"
                               ELSE "written"))
                /\ jobs' = Tail(jobs)
                /\ UNCHANGED <<pc, exit_code>>
    /\ UNCHANGED <<script, src, df, fault, scaleVars, fmtVars>>

\* generate_tables returns; line 392-396
TablesDone ==
    /\ script = "Lab7" /\ pc = "tables" /\ jobs = <<>>
    /\ jobs' = HeatmapJobs(df)
    /\ pc' = "heatmaps"
    /\ UNCHANGED <<script, src, df, results, fault, exit_code, scaleVars, fmtVars>>

\* one create_pivot_table + create_heatmap of the loop of main; every
\* library call of it is inside a try
HeatmapStep ==
    /\ script = "Lab7" /\ pc = "heatmaps" /\ jobs # <<>>
    /\ Head(jobs).kind = "heatmap"
    /\ LET job  == Head(jobs)
           I    == PivotRows(df, job.method, job.sc, job.fixed)
           grid == IF FaultHits("pivot") THEN NoGrid
                   ELSE create_pivot_table(df, job.method, job.sc, job.fixed,
                                           job.val_col, job.aggfunc)
           nrm  == IF grid = NoGrid THEN NoNorm
                   ELSE Lab7Norm(grid.cells, job.log_norm)
       IN  results' = Append(results,
                Result(job, I, grid, nrm, NoTable, NoTable,
                       IF grid = NoGrid
                       THEN (IF FaultHits("pivot") THEN "pivot failed" ELSE "no data")
                       ELSE IF FaultHits("render") THEN "render failed"
                       ELSE IF FaultHits("save") THEN "save failed"
                       ELSE "saved"))
    /\ jobs' = Tail(jobs)
    /\ UNCHANGED <<script, pc, src, df, fault, exit_code, scaleVars, fmtVars>>

\* lines 422-424: the columns RootError and RootError_Plot of df
ComputeRootError ==
    /\ script = "Lab7" /\ pc = "heatmaps" /\ jobs # <<>>
    /\ Head(jobs).kind = "rooterror"
    /\ df' = WithRootError(df)
    /\ results' = Append(results,
            Result(Head(jobs), {}, NoGrid, NoNorm, NoTable, NoTable, "computed"))
    /\ jobs' = Tail(jobs)
    /\ UNCHANGED <<script, pc, src, fault, exit_code, scaleVars, fmtVars>>

\* line 441: main returns
Finish ==
    /\ script = "Lab7" /\ pc = "heatmaps" /\ jobs = <<>>
    /\ pc' = "exit" /\ exit_code' = 0
    /\ UNCHANGED <<script, src, df, jobs, results, fault, scaleVars, fmtVars>>

NextLab7 ==
    \/ FileMissing \/ ReadFails \/ SchemaFails \/ Load
    \/ TableStep \/ TablesDone \/ HeatmapStep \/ ComputeRootError \/ Finish

\* the sources no frame is made of: no file, a file read_csv cannot parse,
\* a file of Newton rows without the column x1, one without StopCriterion
BadSources ==
    { Source(FALSE, FALSE, {}, <<>>),
      Source(TRUE, FALSE, {}, <<>>),
      Source(TRUE, TRUE, required_cols \ {"x1"},
             <<Row("Newton", "Stop_dX", 0, NaN, 1000, 0, 3, 0)>>),
      Source(TRUE, TRUE, required_cols \ {"StopCriterion"},
             <<Row("Newton", MissingText, 0, NaN, 1000, 0, 3, 0)>>) }

\* the sequences of 0 .. n rows of a set
RowsUpTo(S, n) == UNION {[1..k -> S] : k \in 0..n}

MaxRows == 2

InitLab7(rowset, faults) ==
    /\ script = "Lab7"
    /\ pc = "start"
    /\ src \in BadSources \cup {Source(TRUE, TRUE, required_cols, rows) :
                                   rows \in RowsUpTo(rowset, MaxRows)}
    /\ fault \in faults
    /\ df = <<>> /\ jobs = <<>> /\ results = <<>>
    /\ exit_code = NoExit
    /\ ScaleIdle
    /\ FmtIdle

(***************************************************************************)
(* Specification Spec: the run of Lab7 over the files whose rows differ in *)
(* method, stop criterion and start points (one precision, every run a     *)
(* Success).  -1.4 and 0.6 are the ends of the interval, 0.0 lies inside.  *)
(***************************************************************************)
FacetRows ==
    { Row(m, sc, x0, x1, 1000, 0, 3, 0) :
        m \in {"Newton", "Secant"}, sc \in {"Stop_dX", "Stop_fX"},
        x0 \in {-140, 0, 60}, x1 \in {NaN, -140, 60} }

Init == InitLab7(FacetRows, {NoFault})

Next == NextLab7

Spec == Init /\ [][Next]_vars

\* the heatmap facets processed so far (each is drawn once per metric; the
\* Iterations heatmap stands for the facet) and the table facets
HeatmapFacets ==
    {n \in DOMAIN results :
        results[n].job.kind = "heatmap" /\ results[n].job.val_col = "Iterations"}

TableFacets == {n \in DOMAIN results : results[n].job.kind = "table"}

FacetsSelecting(facets, i) == {n \in facets : i \in results[n].rows}

\* C6: when the run has processed every facet, each ingested row is selected
\* by exactly one heatmap facet and by exactly one table facet.
C6_FacetsPartitionRows ==
    (pc = "exit" /\ exit_code = 0) =>
        \A i \in DOMAIN df :
            /\ Cardinality(FacetsSelecting(HeatmapFacets, i)) = 1
            /\ Cardinality(FacetsSelecting(TableFacets, i)) = 1

\* C8: the run ends with a non-zero exit code exactly when the file is
\* missing, holds no rows or lacks a required column, and then no facet was
\* processed; every other run ends with exit code 0.
C8_ExitCode ==
    pc = "exit" =>
        /\ exit_code # 0 <=>
              \/ ~src.exists
              \/ src.rows = <<>>
              \/ ~(required_cols \subseteq src.columns)
        /\ exit_code # 0 => results = <<>>

(***************************************************************************)
(* Specification SpecErr: the run of Lab7 over the files of one method and *)
(* stop criterion whose rows differ in start point, precision, root and    *)
(* status.  The roots: none, 0.0000149, -1.0000149 and 11.0.               *)
(***************************************************************************)
ErrRows ==
    { Row("Newton", "Stop_dX", x0, NaN, rho, root, 3, st) :
        x0 \in {0, 10}, rho \in {1000, 1000000},
        root \in {NaN, 149, -10000149, 110000000}, st \in {0, 1} }

InitErr == InitLab7(ErrRows, {NoFault})

SpecErr == InitErr /\ [][Next]_vars

\* the rows whose RootError_Plot holds the sentinel: the columns exist and
\* the row has no RootError
SentinelRows ==
    {i \in DOMAIN df : ~IsNaN(df[i].RootError_Plot) /\ IsNaN(df[i].RootError)}

\* the rows with a genuine finite root error: Success with a root
GenuineRows ==
    {i \in DOMAIN df : /\ ~IsNaN(df[i].RootError_Plot)
                       /\ df[i].Status = 0 /\ IsFinite(df[i].Root)}

\* C4: the sentinel written for a failed or undefined root error is >= the
\* root error of every Success row with a root in the same dataset.
C4_SentinelIsWorst ==
    \A j \in SentinelRows : \A i \in GenuineRows :
        df[j].RootError_Plot >= NearestReferenceError(df[i].Root)

\* C5: once RootError_Plot is written, a Success row with a root holds its
\* genuine error min(|Root - 0.0|, |Root + 1.0|), and the sentinel is only in
\* rows that are not Success or have no root.
C5_SuccessRowsKeepTheirError ==
    \A i \in DOMAIN df :
        ~IsNaN(df[i].RootError_Plot) =>
            /\ (df[i].Status = 0 /\ ~IsNaN(df[i].Root)) =>
                   df[i].RootError_Plot = NearestReferenceError(df[i].Root)
            /\ i \in SentinelRows => (df[i].Status # 0 \/ IsNaN(df[i].Root))

\* C5 witness: a dataset in which the sentinel was written next to a Success
\* row whose error is larger than the sentinel
C5_Witness ==
    /\ SentinelRows # {}
    /\ \E i \in GenuineRows : df[i].RootError_Plot > max_possible_error_proxy

FailureMarkers == {"BLAD (MaxIter)", "BLAD (Stagnacja)", "BLAD (status)"}

\* the facet rows whose outcome is failed and undefined
FailedRows(n) ==
    {i \in results[n].rows : /\ df[i].Status # 0 /\ IsNaN(df[i].Root)
                             /\ ~IsNaN(df[i].PrecisionRho)}

SweptBucket(n, i) ==
    Round1(df[i][IF results[n].job.method = "Secant" THEN "x1" ELSE "x0"])

\* C9: for every failed row of a processed facet, the error grid holds the
\* sentinel at the row's (precision, swept bucket) and the plain table holds
\* a failure marker at its (swept bucket, precision).
C9_FailuresStayVisible ==
    \A n \in DOMAIN results : \A i \in FailedRows(n) :
        /\ ~IsNaN(SweptBucket(n, i))
        /\ results[n].outcome \notin {"pivot failed", "raised"}
        =>
        /\ (results[n].job.kind = "table") =>
              /\ <<SweptBucket(n, i), df[i].PrecisionRho>> \in DOMAIN results[n].table.cells
              /\ results[n].table.cells[<<SweptBucket(n, i), df[i].PrecisionRho>>].text
                     \in FailureMarkers
        /\ (results[n].job.kind = "heatmap" /\ results[n].job.val_col = "RootError_Plot") =>
              /\ <<df[i].PrecisionRho, SweptBucket(n, i)>> \in DOMAIN results[n].grid.cells
              /\ results[n].grid.cells[<<df[i].PrecisionRho, SweptBucket(n, i)>>]
                     = max_possible_error_proxy

(***************************************************************************)
(* The run of Lab5 and of Lab6: main() of plot_heatmaps.py.  The two files *)
(* differ in the name of the second column (M, m), in the limits of the    *)
(* annotated heatmaps and in the test that selects the scale.              *)
(***************************************************************************)
ANNOT_N_LIMIT(s) == IF s = "Lab5" THEN 30 ELSE 51

ANNOT_M_LIMIT(s) == IF s = "Lab5" THEN 20 ELSE 25

PointRow(n, m, max_err, mse) ==
    [N |-> n, M |-> m, MaxAbsoluteError |-> max_err, MeanSquaredError |-> mse]

\* df.dropna(subset=['N', 'M']): the rows whose N and M are numbers
DropNaNM(rows) == SelectSeq(rows, LAMBDA r : ~IsNaN(r.N) /\ ~IsNaN(r.M))

\* df['N'].astype(int), df['M'].astype(int): an infinity cannot be cast and
\* the cast raises, outside any try
AstypeIntRaises(rows) ==
    \E i \in DOMAIN DropNaNM(rows) :
        DropNaNM(rows)[i].N = PosInf \/ DropNaNM(rows)[i].M = PosInf

\* filtered_df of main, plot_df of create_heatmap: None is no limit
WithinLimits(d, n_limit, m_limit) ==
    {i \in DOMAIN d : /\ (IsNaN(n_limit) \/ d[i].N <= n_limit)
                      /\ (IsNaN(m_limit) \/ d[i].M <= m_limit)}

\* plot_df.replace([np.inf, -np.inf], np.nan)
ReplaceInf(v) == IF v = PosInf THEN NaN ELSE v

RECURSIVE SumOf(_)
SumOf(S) == IF S = {} THEN 0 ELSE LET i == CHOOSE j \in S : TRUE
                                  IN  i[2] + SumOf(S \ {i})

\* np.mean over the values of one (N, M) pair that are numbers, to the quantum
MeanOf(d, I, col) ==
    LET present == {i \in I : ~IsNaN(ReplaceInf(d[i][col]))}
    IN  IF present = {} THEN NaN
        ELSE SumOf({<<i, d[i][col]>> : i \in present}) \div Cardinality(present)

\* lines 72-90 of Lab5, 51-69 of Lab6: plot_df.pivot(index='N', columns='M',
\* values=value_col) keeps every N and every M; when a pair (N, M) occurs
\* twice it raises and pd.pivot_table(..., aggfunc=np.mean) is taken, which
\* leaves out a pair whose values are all missing.  Both axes ascending.
HeatmapData(d, I, value_col) ==
    LET key(i)  == <<d[i].N, d[i].M>>
        keys    == {key(i) : i \in I}
        dup     == \E i, j \in I : i # j /\ key(i) = key(j)
        mean(k) == MeanOf(d, {i \in I : key(i) = k}, value_col)
        kept    == IF dup THEN {k \in keys : ~IsNaN(mean(k))} ELSE keys
        rows    == {k[1] : k \in kept}
        cols    == {k[2] : k \in kept}
    IN  [index   |-> SortAsc(rows),
         columns |-> SortAsc(cols),
         cells   |-> [k \in rows \X cols |-> IF k \in kept THEN mean(k) ELSE NaN]]

PlotJob(value_col, annotated) ==
    Job("heatmap", "", "", IF annotated THEN "annotated" ELSE "standard", NaN,
        value_col, "mean", TRUE)

\* the calls of create_heatmap main makes: lines 183-188 and 196-214 of Lab5,
\* 164-169 and 178-197 of Lab6
PlotJobs(s, d) ==
    <<PlotJob("MaxAbsoluteError", FALSE), PlotJob("MeanSquaredError", FALSE)>>
    \o (IF WithinLimits(d, ANNOT_N_LIMIT(s), ANNOT_M_LIMIT(s)) # {}
        THEN <<PlotJob("MaxAbsoluteError", TRUE), PlotJob("MeanSquaredError", TRUE)>>
        ELSE <<>>)

\* lines 152-179 of Lab5, 132-160 of Lab6: the frame is read, the rows
\* without N or M are dropped, N and M are cast
LoadPoints ==
    /\ script \in {"Lab5", "Lab6"} /\ pc = "start"
    /\ src.exists /\ src.readable
    /\ heatmap_required_cols \subseteq src.columns
    /\ ~AstypeIntRaises(src.rows)
    /\ df' = DropNaNM(src.rows)
    /\ jobs' = PlotJobs(script, df')
    /\ pc' = "heatmaps"
    /\ UNCHANGED <<script, src, results, fault, exit_code, scaleVars, fmtVars>>

\* lines 178-179 of Lab5, 159-160 of Lab6: the cast raises and the process
\* ends with the traceback
AstypeRaises ==
    /\ script \in {"Lab5", "Lab6"} /\ pc = "start"
    /\ src.exists /\ src.readable
    /\ heatmap_required_cols \subseteq src.columns
    /\ AstypeIntRaises(src.rows)
    /\ pc' = "exit" /\ exit_code' = 1
    /\ UNCHANGED <<script, src, df, jobs, results, fault, scaleVars, fmtVars>>

\* one call of create_heatmap.  The pivot and savefig are inside a try;
\* sns.heatmap (lines 112-121 of Lab5, 93-102 of Lab6) is not, and an
\* exception it raises ends the process.
PlotStep ==
    /\ script \in {"Lab5", "Lab6"} /\ pc = "heatmaps" /\ jobs # <<>>
    /\ LET job  == Head(jobs)
           I    == IF job.case = "annotated"
                   THEN WithinLimits(df, ANNOT_N_LIMIT(script), ANNOT_M_LIMIT(script))
                   ELSE DOMAIN df
           grid == IF I = {} \/ FaultHits("pivot") THEN NoGrid
                   ELSE HeatmapData(df, I, job.val_col)
           nrm  == IF I = {} \/ FaultHits("pivot") THEN NoNorm
                   ELSE SelectNorm(script, grid.cells, TRUE)
       IN  IF I # {} /\ FaultHits("render")
           THEN /\ results' = Append(results,
                        Result(job, I, grid, nrm, NoTable, NoTable, "raised"))
                /\ pc' = "exit" /\ exit_code' = 1
                /\ UNCHANGED jobs
           ELSE /\ results' = Append(results,
                        Result(job, I, grid, nrm, NoTable, NoTable,
                               IF I = {} THEN "no data"
                               ELSE IF FaultHits("pivot") THEN "pivot failed"
                               ELSE IF FaultHits("save") THEN "save failed"
                               ELSE "saved"))
                /\ jobs' = Tail(jobs)
                /\ UNCHANGED <<pc, exit_code>>
    /\ UNCHANGED <<script, src, df, fault, scaleVars, fmtVars>>

\* line 221 of Lab5, 204 of Lab6: main returns
FinishPlots ==
    /\ script \in {"Lab5", "Lab6"} /\ pc = "heatmaps" /\ jobs = <<>>
    /\ pc' = "exit" /\ exit_code' = 0
    /\ UNCHANGED <<script, src, df, jobs, results, fault, scaleVars, fmtVars>>

NextPlots ==
    \/ FileMissing \/ ReadFails \/ SchemaFails
    \/ LoadPoints \/ AstypeRaises \/ PlotStep \/ FinishPlots

(***************************************************************************)
(* Specification SpecPlots: the run of Lab5 and of Lab6 over the files of  *)
(* at most MaxRows rows, in an environment where at most one library call  *)
(* (the pivot, sns.heatmap or savefig of one heatmap) fails.  N = 60 and   *)
(* M = 30 lie outside the limits of the annotated heatmaps of both.        *)
(***************************************************************************)
PointRows ==
    { PointRow(n, m, e, 50) :
        n \in {NaN, 2, 60, PosInf}, m \in {1, 30}, e \in {NaN, 0, 50, PosInf} }

FaultPoints == {NoFault} \cup ({1, 2, 3, 4} \X {"pivot", "render", "save"})

InitPlotsOf(rowset, faults) ==
    /\ script \in {"Lab5", "Lab6"}
    /\ pc = "start"
    /\ src \in { Source(FALSE, FALSE, {}, <<>>),
                 Source(TRUE, FALSE, {}, <<>>),
                 Source(TRUE, TRUE, heatmap_required_cols \ {"M"}, <<>>) }
               \cup {Source(TRUE, TRUE, heatmap_required_cols, rows) :
                        rows \in RowsUpTo(rowset, MaxRows)}
    /\ fault \in faults
    /\ df = <<>> /\ jobs = <<>> /\ results = <<>>
    /\ exit_code = NoExit
    /\ ScaleIdle
    /\ FmtIdle

InitPlots == InitPlotsOf(PointRows, FaultPoints)

SpecPlots == InitPlots /\ [][NextPlots]_vars

\* the source passed the checks of main: it exists, is read and has the
\* required columns
Validated ==
    /\ src.exists /\ src.readable
    /\ RequiredCols(script) \subseteq src.columns

\* C7: a validated run that has ended has attempted every heatmap main
\* enumerates (both metrics of the full range, both metrics of the annotated
\* range when it holds a row), and no failure of one of them ended the run.
C7_EveryArtifactAttempted ==
    (pc = "exit" /\ Validated /\ results # <<>>) =>
        /\ \A n \in DOMAIN results : results[n].outcome # "raised"
        /\ \A value_col \in {"MaxAbsoluteError", "MeanSquaredError"} :
              /\ \E n \in DOMAIN results :
                    results[n].job = PlotJob(value_col, FALSE)
              /\ WithinLimits(df, ANNOT_N_LIMIT(script), ANNOT_M_LIMIT(script)) # {}
                    => \E n \in DOMAIN results :
                          results[n].job = PlotJob(value_col, TRUE)

(***************************************************************************)
(* Specification SpecFmt: format_root_error_pl applied to every root value *)
(* and status of a bounded domain.  0.0000149 and 0.0000151 lie between    *)
(* two 5-decimal numbers; -0.37 is nearer to the reference root -1.0 than  *)
(* its error 0.63 printed to an exponent shows; 11.0 is far from both.     *)
(***************************************************************************)
MaxStatus == 3

FmtRoots == {NaN, PosInf, 0, 100, 149, 151, -3700000, -10000000, -10000149,
             5000000, 110000000}

FmtStatuses == {NaN} \cup (-1 .. MaxStatus)

InitFmt ==
    /\ script = "Lab7"
    /\ pc = "format"
    /\ root_value \in FmtRoots
    /\ status \in FmtStatuses
    /\ cell = NoCell
    /\ ScaleIdle
    /\ RunIdle

FormatCell ==
    /\ pc = "format"
    /\ cell' = format_root_error_pl(root_value, status)
    /\ pc' = "formatted"
    /\ UNCHANGED <<script, root_value, status, scaleVars, runVars>>

NextFmt == FormatCell

SpecFmt == InitFmt /\ [][NextFmt]_vars

\* a number to 5 decimals (an infinity prints as inf)
ToFiveDecimals(v) ==
    IF v = PosInf THEN PosInf
    ELSE CHOOSE w \in (v - 50) .. (v + 50) :
            /\ w % 100 = 0
            /\ \A u \in (v - 50) .. (v + 50) :
                  u % 100 = 0 => (Abs(w - v) < Abs(u - v) \/ (w \div 100) % 2 = 0 \/ u = w)

\* a number >= 0 in scientific notation with one decimal
ToTwoDigits(v) ==
    IF v = PosInf \/ v < 100 THEN v
    ELSE LET p == CHOOSE q \in {10, 100, 1000, 10000, 100000, 1000000, 10000000} :
                     10 * q <= v /\ v < 100 * q
         IN  ((2 * v + p) \div (2 * p)) * p

\* C10 as stated: Success with a value gives the value to 5 decimals and its
\* error to the nearest reference root; any other status gives the marker
\* ERR(<status code>), whatever the value; Success without a value gives NaN.
C10_StatusCodeMarker ==
    pc = "formatted" =>
        /\ (status = 0 /\ ~IsNaN(root_value)) =>
               cell = ValueCell(ToFiveDecimals(root_value),
                                ToTwoDigits(NearestReferenceError(root_value)))
        /\ status # 0 => cell = ErrorCell("BLAD (status)", status)
        /\ (status = 0 /\ IsNaN(root_value)) => cell = NaNCell

\* the marker of a status that is not Success
FailureMarker(s) ==
    CASE s = 1 -> ErrorCell("BLAD (MaxIter)", NaN)
      [] s = 2 -> ErrorCell("BLAD (Stagnacja)", NaN)
      [] OTHER -> ErrorCell("BLAD (status)", s)

\* C10 (amended): as C10, the marker of a status that is not Success being
\* BLAD (MaxIter) for status 1, BLAD (Stagnacja) for status 2 and
\* BLAD (<status code>) for every other status; the marker depends on the
\* status alone, never on the value.
C10_FormatRootErrorCell ==
    pc = "formatted" =>
        /\ (status = 0 /\ ~IsNaN(root_value)) =>
               /\ cell.text = "value (Blad: err)"
               /\ cell.value = ToFiveDecimals(root_value)
               /\ cell.err = ToTwoDigits(NearestReferenceError(root_value))
        /\ status # 0 => cell = FailureMarker(status)
        /\ (status = 0 /\ IsNaN(root_value)) => cell = NaNCell

\* C10 witness: a failed row that carries a value got its failure marker
C10_Witness ==
    /\ pc = "formatted"
    /\ status = 1
    /\ root_value = 5000000
    /\ cell = ErrorCell("BLAD (MaxIter)", NaN)


(***************************************************************************)
(* Specification SpecTab: the run of Lab7 over the files of one method and *)
(* stop criterion whose rows differ in start point, precision, root,       *)
(* iteration count and status; a status or an iteration count that is no   *)
(* number is read as missing.  0.04 and 0.15 are no multiples of 0.1.      *)
(***************************************************************************)
TabRows ==
    { Row("Newton", "Stop_dX", x0, NaN, rho, root, iters, st) :
        x0 \in {0, 4, 15}, rho \in {1000, 1000000},
        root \in {NaN, 149}, iters \in {NaN, 3}, st \in {NaN, 0} }

InitTab == InitLab7(TabRows, {NoFault})

SpecTab == InitTab /\ [][Next]_vars

\* the rows of a facet that hold the (swept bucket, precision) key k
RowsAt(n, k) ==
    {i \in results[n].rows : /\ SweptBucket(n, i) = k[1]
                             /\ df[i].PrecisionRho = k[2]}

\* the plain tables written so far
WrittenTables ==
    {n \in DOMAIN results :
        results[n].job.kind = "table" /\ results[n].outcome = "written"}

\* C11: in every plain table written, the iteration cell of a key that one
\* row holds is the integer iteration count when the row's status is Success
\* and the marker with the status code otherwise; a Success row never shows
\* a failure marker.
C11_IterationCell ==
    \A n \in WrittenTables : \A k \in DOMAIN results[n].table.iters :
        \A i \in RowsAt(n, k) :
            RowsAt(n, k) = {i} =>
                /\ df[i].Status = 0 =>
                      /\ results[n].table.iters[k].text = "int"
                      /\ results[n].table.iters[k].text \notin FailureMarkers
                /\ df[i].Status # 0 =>
                      results[n].table.iters[k] = ErrorCell("BLAD (status)", df[i].Status)


\* C12: once the dataset is ingested, no stage changes it: at every point of
\* the processing of the facets the shared frame is the frame validation
\* produced (the same rows, columns and cell values).
C12_DatasetUnchanged ==
    (pc \in {"tables", "heatmaps"} \/ (pc = "exit" /\ results # <<>>)) =>
        df = Ingest(src.rows)


\* the rows of a Lab5/Lab6 heatmap that hold the (N, M) key k
PointsAt(n, k) == {i \in results[n].rows : df[i].N = k[1] /\ df[i].M = k[2]}

\* the metric values of a group of rows as the heatmap reads them
\* (an infinity is read as missing)
GroupValues(n, G) ==
    {IF df[i][results[n].job.val_col] = PosInf THEN NaN
     ELSE df[i][results[n].job.val_col] : i \in G}

\* the value of the first-seen row of a group
FirstSeenValue(n, G) ==
    LET i == CHOOSE j \in G : \A h \in G : j <= h
    IN  IF df[i][results[n].job.val_col] = PosInf THEN NaN
        ELSE df[i][results[n].job.val_col]

\* the smallest value of a group, missing when the group has no value
SmallestValue(n, G) ==
    IF GroupValues(n, G) \ {NaN} = {} THEN NaN
    ELSE CHOOSE v \in GroupValues(n, G) \ {NaN} :
            \A w \in GroupValues(n, G) \ {NaN} : v <= w

\* C13: in every grid built, the cell of a key that several rows hold is the
\* aggregate of that group's metric values: the value of the first-seen row,
\* or the minimum for an error metric.
C13_CellIsAggregateOfGroup ==
    \A n \in DOMAIN results :
        (results[n].job.kind = "heatmap" /\ results[n].grid # NoGrid) =>
            \A k \in DOMAIN results[n].grid.cells :
                PointsAt(n, k) # {} =>
                    results[n].grid.cells[k] \in
                        {FirstSeenValue(n, PointsAt(n, k)),
                         SmallestValue(n, PointsAt(n, k))}


(***************************************************************************)
(* Specification SpecGrid: the runs of the three scripts over small files  *)
(* in which no library call fails.  Lab7: Newton rows and Secant rows with *)
(* x0 = -1.4, swept coordinates 0.0, 0.04 and 0.15, precisions 1e-6 and    *)
(* 1e-3, with and without a root.  Lab5/Lab6: N in {2, 60}, M in {1, 30}.  *)
(***************************************************************************)
GridRows ==
    { Row("Newton", "Stop_dX", x0, NaN, rho, root, 3, 0) :
        x0 \in {0, 4, 15}, rho \in {1000, 1000000}, root \in {NaN, 149} }
    \cup
    { Row("Secant", "Stop_dX", -140, x1, rho, 149, 3, 0) :
        x1 \in {4, 15}, rho \in {1000, 1000000} }

GridPoints ==
    { PointRow(n, m, e, 50) : n \in {2, 60, PosInf}, m \in {1, 30}, e \in {0, 50} }

InitGrid ==
    \/ InitLab7(GridRows, {NoFault})
    \/ InitPlotsOf(GridPoints, {NoFault})

NextGrid == NextLab7 \/ NextPlots

SpecGrid == InitGrid /\ [][NextGrid]_vars

\* a coordinate (units of 1e-2) to one decimal, ties to the even digit
OneDecimal(v) ==
    IF IsNaN(v) THEN NaN
    ELSE CHOOSE w \in (v - 5) .. (v + 5) :
            /\ w % 10 = 0
            /\ \A u \in (v - 5) .. (v + 5) :
                  u % 10 = 0 => (Abs(w - v) < Abs(u - v) \/ u = w \/ (w \div 10) % 2 = 0)

\* a precision (units of 1e-9) to one decimal: every precision below 0.05
\* is in the bucket 0.0
PrecisionOneDecimal(rho) ==
    IF IsNaN(rho) THEN NaN ELSE ((rho + 50000000) \div 100000000) * 100000000

\* the grids of Lab7 built so far
BuiltGrids ==
    {n \in DOMAIN results : /\ script = "Lab7"
                            /\ results[n].job.kind = "heatmap"
                            /\ results[n].grid # NoGrid}

SweptValue(n, i) == df[i][IF results[n].job.method = "Secant" THEN "x1" ELSE "x0"]

\* the rows of a grid's facet that have both keys and a metric value
GridPoints7(n) ==
    {i \in results[n].rows : /\ ~IsNaN(df[i].PrecisionRho)
                             /\ ~IsNaN(SweptValue(n, i))
                             /\ ~IsNaN(df[i][results[n].job.val_col])}

\* C14 as stated: both axes are bucketed to one decimal, every row lands in
\* the cell of (bucket of its precision, bucket of its swept coordinate).
C14_BothAxesBucketed ==
    \A n \in BuiltGrids : \A i \in GridPoints7(n) :
        /\ <<PrecisionOneDecimal(df[i].PrecisionRho), OneDecimal(SweptValue(n, i))>>
               \in DOMAIN results[n].grid.cells
        /\ ~IsNaN(results[n].grid.cells[<<PrecisionOneDecimal(df[i].PrecisionRho),
                                          OneDecimal(SweptValue(n, i))>>])

\* C14 (amended): the swept (column-axis) coordinate is bucketed to one
\* decimal and the precision (row axis) is grouped by its exact value: every
\* row lands in the cell of (its precision, bucket of its swept coordinate),
\* and the grid has no other row or column label; so two rows of one
\* precision whose swept coordinates round to one bucket share a cell.
C14_SweptAxisBucketed ==
    \A n \in BuiltGrids :
        /\ \A i \in GridPoints7(n) :
              /\ <<df[i].PrecisionRho, OneDecimal(SweptValue(n, i))>>
                     \in DOMAIN results[n].grid.cells
              /\ ~IsNaN(results[n].grid.cells[<<df[i].PrecisionRho,
                                                OneDecimal(SweptValue(n, i))>>])
        /\ Range(results[n].grid.index) = {df[i].PrecisionRho : i \in GridPoints7(n)}
        /\ Range(results[n].grid.columns) =
               {OneDecimal(SweptValue(n, i)) : i \in GridPoints7(n)}

\* C14 witness: a grid in which two rows of one precision with different
\* swept coordinates (0.0 and 0.04) share the one cell of column 0.0
C14_Witness ==
    \E n \in BuiltGrids : \E i, j \in GridPoints7(n) :
        /\ SweptValue(n, i) = 0 /\ SweptValue(n, j) = 4
        /\ df[i].PrecisionRho = df[j].PrecisionRho
        /\ results[n].grid.columns = <<0>>
        /\ Len(results[n].grid.index) = 1


IsAscending(q) == \A a, b \in DOMAIN q : a < b => q[a] < q[b]

IsDescending(q) == \A a, b \in DOMAIN q : a < b => q[a] > q[b]

\* C15: every grid built has its columns in ascending order and its rows in
\* descending order when the row axis is the precision (Lab7), in ascending
\* order when it is N (Lab5, Lab6).
C15_GridSorted ==
    \A n \in DOMAIN results :
        (results[n].job.kind = "heatmap" /\ results[n].grid # NoGrid) =>
            /\ IsAscending(results[n].grid.columns)
            /\ script = "Lab7" => IsDescending(results[n].grid.index)
            /\ script # "Lab7" => IsAscending(results[n].grid.index)

\* C15 witness: a precision grid of two rows and two columns built from a
\* file that lists the finer precision first and the larger coordinate first
C15_Witness ==
    \E n \in BuiltGrids :
        /\ {1, 2} \subseteq results[n].rows
        /\ df[1].PrecisionRho < df[2].PrecisionRho
        /\ SweptValue(n, 1) > SweptValue(n, 2)
        /\ results[n].grid.index = <<df[2].PrecisionRho, df[1].PrecisionRho>>
        /\ Len(results[n].grid.columns) = 2


(***************************************************************************)
(* Specification SpecBounds: the run of Lab7 over the files whose rows     *)
(* differ in method and in the two start points, each of which may be      *)
(* missing: x0 is -1.4 or 0.0, x1 is 0.6.                                  *)
(***************************************************************************)
BoundRows ==
    { Row(m, "Stop_dX", x0, x1, 1000, 0, 3, 0) :
        m \in {"Newton", "Secant"}, x0 \in {NaN, -140, 0}, x1 \in {NaN, 60} }

InitBounds == InitLab7(BoundRows, {NoFault})

SpecBounds == InitBounds /\ [][Next]_vars

\* the values a coordinate column holds, missing values left out
Observed(col) == {df[i][col] : i \in DOMAIN df} \ {NaN}

Least(S) == CHOOSE v \in S : \A w \in S : v <= w

Greatest(S) == CHOOSE v \in S : \A w \in S : v >= w

\* the fixed values the Secant heatmap facets were selected with
FixedValues ==
    {<<results[n].job.case, results[n].job.fixed>> :
        n \in {h \in DOMAIN results : /\ results[h].job.kind = "heatmap"
                                      /\ results[h].job.method = "Secant"}}

\* C16 as stated: the two fixed values are the minimum and the maximum of
\* one coordinate column over the whole dataset, and the default interval
\* (-1.4, 0.6) when that column has no value.
C16_BoundsOfOneColumn ==
    \E col \in {"x0", "x1"} :
        FixedValues \subseteq
            IF Observed(col) = {}
            THEN {<<"x0staleA", -140>>, <<"x1staleB", 60>>}
            ELSE {<<"x0staleA", Least(Observed(col))>>,
                  <<"x1staleB", Greatest(Observed(col))>>}

\* C16 (amended): the two fixed values are the minimum and the maximum over
\* the values of both coordinate columns x0 and x1 together, over the whole
\* dataset and missing values left out, and the default interval (-1.4, 0.6)
\* when neither column has a value.
C16_BoundsOfBothColumns ==
    FixedValues \subseteq
        IF Observed("x0") \cup Observed("x1") = {}
        THEN {<<"x0staleA", -140>>, <<"x1staleB", 60>>}
        ELSE {<<"x0staleA", Least(Observed("x0") \cup Observed("x1"))>>,
              <<"x1staleB", Greatest(Observed("x0") \cup Observed("x1"))>>}

\* C16 witness: the Secant facets of a dataset were selected with a lower
\* value that only a Newton row's x0 holds and an upper value that only x1
\* holds
C16_Witness ==
    /\ FixedValues = {<<"x0staleA", -140>>, <<"x1staleB", 60>>}
    /\ \E i \in DOMAIN df : df[i].Method = "Newton" /\ df[i].x0 = -140
    /\ \A i \in DOMAIN df : df[i].Method = "Secant" => df[i].x0 = 0
    /\ 60 \in Observed("x1")


\* C17: every plain table written has one column pair per distinct precision
\* of the facet's rows and no other, and the pairs are in order of
\* increasing precision, whatever the order of the rows in the file.  Stated
\* for the facets all of whose rows carry a root.
C17_PrecisionColumns ==
    \A n \in WrittenTables :
        (\A i \in results[n].rows : ~IsNaN(df[i].Root)) =>
            /\ IsAscending(results[n].table.precisions)
            /\ Range(results[n].table.precisions) =
                   {df[i].PrecisionRho : i \in results[n].rows} \ {NaN}


\* the columns of the root-finding table that are not optional
non_optional_cols == required_cols \ {"StopCriterion", "x1"}

\* C18: a file that is read, holds a row and has every non-optional column
\* is accepted: the run does not end with a non-zero exit code because
\* StopCriterion or x1 is absent.
C18_OptionalColumns ==
    (/\ pc = "exit"
     /\ src.exists /\ src.readable /\ src.rows # <<>>
     /\ non_optional_cols \subseteq src.columns)
        => exit_code = 0


\* the rows of the ingested frame whose status in the file is no number
UnparsableStatusRows == {i \in DOMAIN df : IsNaN(src.rows[i].Status)}

\* C19: a row whose status is no number is ingested with the status -1,
\* never 0, and is treated as failed from then on: once the error column is
\* written it holds the sentinel, and in the table of every facet processed
\* in which the row alone holds its (swept bucket, precision) key, the value
\* cell and the iteration cell at that key are the failure marker of -1.
C19_UnparsableStatusIsFailure ==
    \A i \in UnparsableStatusRows :
        /\ df[i].Status = -1
        /\ (\E n \in DOMAIN results : results[n].job.kind = "rooterror")
              => df[i].RootError_Plot = max_possible_error_proxy
        /\ \A n \in TableFacets :
              (i \in results[n].rows
               /\ RowsAt(n, <<SweptBucket(n, i), df[i].PrecisionRho>>) = {i}) =>
                  /\ <<SweptBucket(n, i), df[i].PrecisionRho>>
                         \in DOMAIN results[n].table.cells
                  /\ results[n].table.cells[<<SweptBucket(n, i), df[i].PrecisionRho>>]
                         = ErrorCell("BLAD (status)", -1)
                  /\ results[n].table.iters[<<SweptBucket(n, i), df[i].PrecisionRho>>]
                         = ErrorCell("BLAD (status)", -1)


\* the table facets processed so far whose two tables both have rows
BothTables ==
    {n \in TableFacets : results[n].table # NoTable /\ results[n].latex # NoTable}

\* C20: bucketing a bucketed coordinate gives the same bucket, and the second
\* rounding of the swept column (by the markup-table formatter, after the
\* plain-table formatter) moves no row: both tables of a facet have the same
\* row labels, the buckets of the facet's swept coordinates.
C20_BucketingIdempotent ==
    \A n \in TableFacets :
        /\ \A i \in results[n].rows :
              Round1(Round1(SweptValue(n, i))) = Round1(SweptValue(n, i))
        /\ n \in BothTables =>
              /\ results[n].latex.index = results[n].table.index
              /\ Range(results[n].latex.index) =
                     {OneDecimal(SweptValue(n, i)) : i \in results[n].rows} \ {NaN}
              /\ DOMAIN results[n].latex.cells = DOMAIN results[n].table.cells

\* C20 witness: both tables of a facet written for rows whose swept
\* coordinates 0.04 and 0.15 are no buckets
C20_Witness ==
    \E n \in BothTables : \E i, j \in results[n].rows :
        /\ SweptValue(n, i) = 4 /\ SweptValue(n, j) = 15
        /\ results[n].latex.index = <<0, 20>>


(***************************************************************************)
(* The metadata main puts on a heatmap: the title names the fixed          *)
(* coordinate with its value and the iterated coordinate, x_axis_label and *)
(* the file name repeat the iterated coordinate.                           *)
(***************************************************************************)
\* the coordinate the title and the file name give as fixed: "stałe $x_0=a$"
\* with x0staleA, "stałe $x_1=b$" with x1staleB, none for Newton
fixed_coordinate_shown(job) ==
    IF job.case = "x0staleA" THEN "x0"
    ELSE IF job.case = "x1staleB" THEN "x1"
    ELSE ""

\* the coordinate the title, x_axis_label and the file name give as iterated
swept_coordinate_shown(job) ==
    IF job.case = "x0staleA" THEN "x1" ELSE "x0"

\* the heatmap jobs processed so far, both metrics
HeatmapResults == {n \in DOMAIN results : results[n].job.kind = "heatmap"}

\* the rows of the method and stop criterion of a processed facet
FacetMethodRows(n) ==
    {i \in DOMAIN df : /\ df[i].Method = results[n].job.method
                       /\ TextEq(df[i].StopCriterion, results[n].job.sc)}

\* C21: for every heatmap facet that has a grid, the rows drawn are the rows
\* of its method and stop criterion whose coordinate shown as fixed is close
\* to the value shown, and the labels of the grid's column axis are buckets
\* of the coordinate shown as swept.
C21_MetadataAgreesWithGrid ==
    \A n \in HeatmapResults :
        LET job == results[n].job
            f   == fixed_coordinate_shown(job)
            s   == swept_coordinate_shown(job)
        IN  results[n].grid # NoGrid =>
              /\ results[n].rows =
                    {i \in FacetMethodRows(n) : f # "" => IsClose(df[i][f], job.fixed)}
              /\ Range(results[n].grid.columns) =
                    {OneDecimal(df[i][s]) : i \in results[n].rows} \ {NaN}


\* C22: in every plain table written, the root cell and the iteration cell
\* of a key are the cells of one row among the rows of the facet that hold
\* the key: the Root, Iterations and Status formatted come from the same run.
\* The markup table's cell of the key is the cell of one such row as well.
C22_CellFromOneRow ==
    \A n \in WrittenTables : \A k \in DOMAIN results[n].table.cells :
        RowsAt(n, k) # {} =>
            /\ \E i \in RowsAt(n, k) :
                  /\ results[n].table.cells[k] =
                         format_root_error_pl(df[i].Root, df[i].Status)
                  /\ results[n].table.iters[k] =
                         IterationCell(df[i].Iterations, df[i].Status)
            /\ k \in DOMAIN results[n].latex.cells =>
                  \E i \in RowsAt(n, k) :
                      results[n].latex.cells[k] =
                          format_root_for_latex(df[i].Root, df[i].Status)


\* the (stop criterion, x0) pairs of the Secant rows whose x0 is a value
SecantCases ==
    {<<df[i].StopCriterion, df[i].x0>> :
        i \in {j \in DOMAIN df : df[j].Method = "Secant" /\ ~IsNaN(df[j].x0)
                                  /\ df[j].StopCriterion # MissingText}}

\* C23: when generate_tables has returned, every distinct non-missing x0 of
\* the Secant rows of a stop criterion has its table facet, holding the rows
\* of that x0; the value 0.0 alone is a value like any other.
C23_SecantFacetPerFixedValue ==
    pc \in {"heatmaps", "exit"} /\ exit_code \in {NoExit, 0} =>
        \A c \in SecantCases :
            \E n \in TableFacets :
                /\ results[n].job.method = "Secant"
                /\ results[n].job.sc = c[1]
                /\ results[n].job.fixed = c[2]
                /\ results[n].rows # {}


(***************************************************************************)
(* The output files of Lab7.  A file name is held as its parts: directory, *)
(* prefix, method part, stop-criterion part, case part and the text of the *)
(* fixed value.  str.lower and sanitize_filename are given on the texts    *)
(* the files of the model hold.                                            *)
(***************************************************************************)
\* METHOD_TRANSLATIONS.get(method_key, method_key)
METHOD_TRANSLATIONS(method_key) ==
    IF method_key = "Newton" THEN "Metoda Newtona"
    ELSE IF method_key = "Secant" THEN "Metoda siecznych"
    ELSE method_key

\* str.lower()
Lower(s) ==
    IF s \in {"Stop_dX", "stop_dx"} THEN "stop_dx"
    ELSE IF s \in {"Stop_fX", "stop_fx"} THEN "stop_fx"
    ELSE IF s = "Metoda Newtona" THEN "metoda newtona"
    ELSE IF s = "Metoda siecznych" THEN "metoda siecznych"
    ELSE s

\* sanitize_filename(name): a space becomes an underscore; the other
\* characters of these texts are word characters and stay
sanitize_filename(name) ==
    IF name = "Metoda Newtona" THEN "Metoda_Newtona"
    ELSE IF name = "Metoda siecznych" THEN "Metoda_siecznych"
    ELSE IF name = "metoda newtona" THEN "metoda_newtona"
    ELSE IF name = "metoda siecznych" THEN "metoda_siecznych"
    ELSE name

\* f"{x0_val:.2f}" of a coordinate held in hundredths: sign, integer digits
\* and the two decimals
TwoDecimalText(v) ==
    [negative |-> v < 0, integer |-> Abs(v) \div 100, decimals |-> Abs(v) % 100]

\* the fixed-value part of a name that has none
NoFixedText == [negative |-> FALSE, integer |-> -1, decimals |-> -1]

FileName(dir, prefix, method, sc, case, fixed) ==
    [dir |-> dir, prefix |-> prefix, method |-> method, sc |-> sc,
     case |-> case, fixed |-> fixed]

\* lines 261-264 and 342-346: prefix, method_name_pl.lower() with underscores,
\* stop_criterion_key.lower() and, for Secant, xstale_ with the fixed value
table_filename(dir, prefix, job) ==
    FileName(dir, prefix,
             sanitize_filename(Lower(METHOD_TRANSLATIONS(job.method))),
             sanitize_filename(Lower(job.sc)),
             IF job.method = "Secant" THEN "xstale" ELSE "",
             IF job.method = "Secant" THEN TwoDecimalText(job.fixed) ELSE NoFixedText)

\* fname_* of main (lines 407-438) through sanitize_filename of line 115:
\* metric, translated method, case and the stop-criterion key as it is
heatmap_filename(job) ==
    FileName("plots",
             IF job.val_col = "Iterations" THEN "heatmap_iteracje" ELSE "heatmap_blad",
             sanitize_filename(METHOD_TRANSLATIONS(job.method)),
             sanitize_filename(job.sc),
             IF job.case = "x0iter" THEN "x0iter"
             ELSE IF job.case = "x0staleA" THEN "x0staleA_x1iter"
             ELSE "x1staleB_x0iter",
             NoFixedText)

\* the files the n-th facet processed has written
FilesOf(n) ==
    LET r == results[n]
    IN  IF r.job.kind = "table"
        THEN (IF r.outcome = "written"
              THEN {table_filename("tables", "pelna_tabela", r.job)} ELSE {})
             \cup
             (IF r.outcome # "raised" /\ r.latex # NoTable
              THEN {table_filename("latex_tables", "latex_format_pierwiastki", r.job)}
              ELSE {})
        ELSE IF r.job.kind = "heatmap" /\ r.outcome = "saved"
        THEN {heatmap_filename(r.job)}
        ELSE {}

(***************************************************************************)
(* Specification SpecNames: the run of Lab7 over the files whose rows      *)
(* differ in method, start point and the spelling of the stop criterion.   *)
(* An unknown stop-criterion key is a key like the known ones (line 158:   *)
(* STOP_CRITERION_TRANSLATIONS.get(key, key)).                             *)
(***************************************************************************)
NameRows ==
    { Row(m, sc, x0, x1, 1000, 0, 3, 0) :
        m \in {"Newton", "Secant"}, sc \in {"Stop_dX", "stop_dx", "Stop_fX"},
        x0 \in {-140, 60}, x1 \in {-140, 60} }

InitNames == InitLab7(NameRows, {NoFault})

SpecNames == InitNames /\ [][Next]_vars

\* C24: two different facets of a run never write the same file: the files
\* of any two facets processed are different files.
C24_NoFileWrittenTwice ==
    \A n, m \in DOMAIN results :
        n # m => FilesOf(n) \cap FilesOf(m) = {}

=============================================================================
